---- MODULE Spec2Model ----
(***************************************************************************)
(* Rigol DHO oscilloscope DAQ scripts: rigolDAQ.py ("basic"),              *)
(* rigolDAQ_normal_mode.py ("normal") and rigolDAQ_max_mode.py ("max").    *)
(*                                                                         *)
(* The model follows the three scripts statement by statement from the     *)
(* point where the acquisition loop is entered, over a byte-level TCP      *)
(* stream: `wire` holds the bytes the instrument has sent that have not    *)
(* reached the client yet, `rxbuf` the bytes waiting in the client's       *)
(* socket receive buffer.  Delivery moves one byte at a time, so every     *)
(* fragmentation of every reply is a behaviour of the model.               *)
(*                                                                         *)
(* A stream symbol is one byte, written as a one-character string; the     *)
(* status words "TD" and "RUN" are written as one symbol each.             *)
(***************************************************************************)
EXTENDS Integers, Sequences, FiniteSets, TLC

\* ---------------------------------------------------------------- bounds
\* --ntrig: the number of triggers requested on the command line
NTrig == 2
\* the largest payload length L a waveform block declares
MaxPayload == 2
\* the status polls of one trigger wait recorded in statusLog
MaxPolls == 2
\* seconds by which the clock advances in one Tick
TickStep == 5
\* the irregularities of one run: a reply that is missing or garbled, a
\* receive that returns or times out while bytes of the reply are still in
\* flight, the instrument closing the connection
MaxFaults == 1

\* ---------------------------------------------------- program constants
\* receive_data(buffer_size=4096), scaled down to the model's block sizes
buffer_size == 4
\* the trigger wait's timeout in seconds
TriggerTimeout == 10
\* for attempt in range(3) / retries=3
retries == 3

Scripts == {"basic", "normal", "max"}

\* ------------------------------------------------------- python helpers
Min(a, b) == IF a < b THEN a ELSE b

\* s[i:j] for 0 <= i, 0 <= j
Slice(s, i, j) ==
    LET lo == Min(i, Len(s))
        hi == Min(j, Len(s))
    IN  IF hi <= lo THEN <<>> ELSE [k \in 1..(hi - lo) |-> s[lo + k]]

\* s[i:] for 0 <= i
SliceFrom(s, i) == Slice(s, i, Len(s))

\* s.find(c): the 0-based index of the first c, -1 when there is none
Find(s, c) ==
    IF \E k \in 1..Len(s) : s[k] = c
    THEN (CHOOSE k \in 1..Len(s) : s[k] = c /\ \A j \in 1..(k - 1) : s[j] # c) - 1
    ELSE -1

Whitespace == {"\n"}

\* s.strip()
Strip(s) ==
    LET keep == {k \in 1..Len(s) : s[k] \notin Whitespace}
    IN  IF keep = {} THEN <<>>
        ELSE LET lo == CHOOSE k \in keep : \A j \in keep : k <= j
                 hi == CHOOSE k \in keep : \A j \in keep : j <= k
             IN  [k \in 1..(hi - lo + 1) |-> s[lo + k - 1]]

DigitChars == <<"0", "1", "2", "3", "4", "5", "6", "7", "8", "9">>
IsDigit(c) == \E n \in 1..10 : DigitChars[n] = c
DigitVal(c) == (CHOOSE n \in 1..10 : DigitChars[n] = c) - 1
DigitChar(n) == DigitChars[n + 1]

\* a parse that takes the empty string for a numeral
IntParsesOrEmpty(s) ==
    LET t == Strip(s) IN \A k \in 1..Len(t) : IsDigit(t[k])

\* int(s) succeeds: after strip() a non-empty run of decimal digits
IntParses(s) ==
    LET t == Strip(s) IN t # <<>> /\ \A k \in 1..Len(t) : IsDigit(t[k])

RECURSIVE DecVal(_)
DecVal(t) ==
    IF t = <<>> THEN 0
    ELSE 10 * DecVal(SubSeq(t, 1, Len(t) - 1)) + DigitVal(t[Len(t)])

\* int(s) where it succeeds
IntVal(s) == DecVal(Strip(s))

\* float(s) succeeds; the model's numeric replies are runs of digits
FloatParses(s) == IntParses(s)

\* ------------------------------------------------------ waveform blocks
PayloadBytes == <<"a", "b", "c", "d", "e", "f", "g", "h", "i">>
Payload(L) == [k \in 1..L |-> PayloadBytes[k]]

\* the length field: L in d digits, zero-padded on the left
LengthField(L, d) == [k \in 1..d |-> IF k = d THEN DigitChar(L) ELSE "0"]

\* '#' d <d digits of L> <L bytes>
Block(d, L) == <<"#", DigitChar(d)>> \o LengthField(L, d) \o Payload(L)

HeaderDigits == {1, 2}
ValidBlocks == {Block(d, L) : d \in HeaderDigits, L \in 1..MaxPayload}

\* what a correct decoder makes of a valid block
DeclaredLength(b) == IntVal(Slice(b, 2, 2 + DigitVal(b[2])))
BlockPayload(b) == SliceFrom(b, 2 + DigitVal(b[2]))

\* ---------------------------------------------------------------- state
VARIABLES
    script,         \* which of the three scripts runs
    pc,             \* the statement the script is at
    ret,            \* where the running receive_data call returns to
    itrg,           \* the acquisition loop's trigger index
    chan,           \* the channel being fetched (3, then 4)
    wire,           \* bytes sent by the instrument, still in flight
    rxbuf,          \* bytes in the client's socket receive buffer
    closed,         \* the instrument has closed the connection
    tmo,            \* the socket's timeout setting
    bufsz,          \* receive_data's buffer_size argument
    chunks,         \* receive_data's chunks, joined
    data,           \* what the last receive_data call returned
    attempt,        \* the retry counter of the running query
    byte_count,     \* the byte count parsed from the block header
    waveform_data,  \* the payload collected so far
    received,       \* receive_waveform_data's accumulator
    voltage_ch3,    \* the payload converted for channel 3 in this iteration
    voltage_ch4,    \* the payload converted for channel 4 in this iteration
    v_list,         \* v3_list and v4_list, zipped
    saved,          \* the records written to CSV files, in order
    elapsed,        \* seconds since the trigger wait started (saturating)
    err,            \* the exception that ended the script, "none" otherwise
    errAt,          \* the statement that raised it
    blk,            \* the waveform block the instrument holds
    faults,         \* the irregularities of the run so far, by kind
    qi,             \* the step of the setup sequence the script is at
    values,         \* the numbers the setup queries have returned, in order
    log,            \* history: commands sent and flushes of this iteration
    polls,          \* history: status queries sent in this trigger wait
    statusLog,      \* history: status replies read in this trigger wait
    sent,           \* history: the last command sent
    dirty           \* history: unread or in-flight bytes existed at that send

sockVars == <<wire, rxbuf, closed, tmo>>
recvVars == <<ret, bufsz, chunks, data>>
fetchVars == <<attempt, byte_count, waveform_data, received>>
recVars == <<voltage_ch3, voltage_ch4, v_list, saved>>
waitVars == <<elapsed, polls, statusLog>>
sendVars == <<log, sent, dirty>>
setupVars == <<qi, values>>
vars == <<script, pc, itrg, chan, sockVars, recvVars, fetchVars, recVars,
          waitVars, sendVars, err, errAt, blk, setupVars, faults>>

Terminal == {"done", "crashed", "spin"}

\* ----------------------------------------------------------- instrument
\* WAVeform:POINTs? as answered during setup: the block's declared length
npts == DeclaredLength(blk)

\* answers to WAVeform:DATA? that are no valid block: the length-of-length
\* digit is '0', is no digit, is absent, or the '#' marker is missing
MalformedReplies ==
    { <<"#", "0", "1", "a", "\n">>, <<"#", "x", "1", "a", "\n">>, <<"#">>,
      <<"1", "1", "a", "\n">> }

\* the instrument's answers to WAVeform:DATA?: the block and its
\* terminator, a malformed block, or nothing at all
DataReplies == {blk \o <<"\n">>, <<>>} \cup MalformedReplies

\* the instrument's answers to TRIGger:STATus?
StatusReplies == {<<"RUN", "\n">>, <<"TD", "\n">>, <<>>}

\* the numeral the instrument holds for each numeric query
Numeral(cmd) ==
    CASE cmd = "XINC?" -> "1"
      [] cmd = "XOR?" -> "2"
      [] cmd = "POINTS?" -> DigitChar(npts)
      [] cmd = "YINC?" -> "3"
      [] cmd = "YOR?" -> "4"
      [] cmd = "YREF?" -> "5"

\* the instrument's answers to a numeric query: the numeral, an empty line,
\* a line that is no numeral, nothing at all
NumericReplies(cmd) == {<<Numeral(cmd), "\n">>, <<"\n">>, <<"x", "\n">>, <<>>}

\* the instrument's answers to *IDN?: the identity line, or nothing at all
IdnReplies == {<<"R", "\n">>, <<>>}

\* an answer that is missing or garbled
Irregular(reply) == reply \in {<<>>, <<"\n">>, <<"x", "\n">>} \cup MalformedReplies

\* the instrument may answer a query with reply
Answers(reply) ==
    /\ (Irregular(reply) /\ ~closed) => Len(faults) < MaxFaults
    /\ faults' = IF Irregular(reply) /\ ~closed THEN Append(faults, "reply") ELSE faults

\* the history of commands; consecutive status polls are recorded once
LogAppend(l, cmds) ==
    IF l # <<>> /\ l[Len(l)] = "STAT?" /\ cmds = <<"STAT?">> THEN l ELSE l \o cmds

\* s.sendall(f'{cmd}\n') for each command of cmds; the instrument answers
\* the last one with reply unless the connection is closed
send_command(cmds, reply) ==
    /\ log' = LogAppend(log, cmds)
    /\ sent' = cmds[Len(cmds)]
    /\ dirty' = (wire # <<>> \/ rxbuf # <<>>)
    /\ wire' = IF closed THEN wire ELSE wire \o reply

\* one more byte reaches the client's receive buffer
Deliver ==
    /\ wire # <<>>
    /\ pc \notin Terminal
    /\ rxbuf' = Append(rxbuf, Head(wire))
    /\ wire' = Tail(wire)
    /\ UNCHANGED <<script, pc, itrg, chan, closed, tmo, recvVars, fetchVars,
                   recVars, waitVars, sendVars, err, errAt, blk, setupVars, faults>>

\* the instrument closes the connection, having sent all of its reply or
\* only the first n bytes of what is still in flight
PeerClose ==
    /\ ~closed
    /\ pc \notin Terminal
    /\ Len(faults) < MaxFaults
    /\ faults' = Append(faults, "close")
    /\ closed' = TRUE
    /\ \E n \in 0..Len(wire) : wire' = SubSeq(wire, 1, n)
    /\ UNCHANGED <<script, pc, itrg, chan, rxbuf, tmo, recvVars, fetchVars,
                   recVars, waitVars, sendVars, err, errAt, blk, setupVars>>

\* the statements of a trigger wait
Waiting ==
    \/ pc \in {"poll", "poll_check"}
    \/ pc = "receive_data" /\ ret = "poll_check"

\* time passes while the script waits for the trigger (rigolDAQ.py never
\* reads the clock)
Tick ==
    /\ script # "basic"
    /\ Waiting
    /\ elapsed <= TriggerTimeout
    /\ elapsed' = elapsed + TickStep
    /\ UNCHANGED <<script, pc, itrg, chan, sockVars, recvVars, fetchVars, recVars,
                   polls, statusLog, sendVars, err, errAt, blk, setupVars, faults>>

\* ---------------------------------------------------------------- socket
\* recv() finds end of stream: the peer closed and every byte was read
AtEOF == closed /\ wire = <<>> /\ rxbuf = <<>>

\* s.recv(n) with bytes buffered: up to n of them
RecvChunk(n) == Slice(rxbuf, 0, n)
RecvRest(n) == SliceFrom(rxbuf, n)

\* a receive that returns ("early") or times out ("late") while bytes are
\* still in flight
Untimely(kind) ==
    /\ wire # <<>> => Len(faults) < MaxFaults
    /\ faults' = IF wire # <<>> THEN Append(faults, kind) ELSE faults

\* an uncaught exception ends the script
Raise(e, where) ==
    /\ pc' = "crashed"
    /\ err' = e
    /\ errAt' = where

\* a call of receive_data(n) that returns to statement r
CallReceiveData(n, r) ==
    /\ pc' = "receive_data"
    /\ ret' = r
    /\ bufsz' = n
    /\ chunks' = <<>>
    /\ data' = <<>>

\* receive_data returns b
ReturnData(b) ==
    /\ pc' = ret
    /\ data' = b
    /\ chunks' = <<>>

\* the statements that send a command
Sending ==
    \/ pc \in {"pre", "poll", "fired", "fetch", "data_query", "yquery"}
    \/ pc \in {"idn", "idn_done", "query"}
    \/ pc = "loop" /\ itrg < NTrig /\ script # "basic"
    \/ pc = "convert" /\ script = "basic" /\ chan = 4

\* sendall on a connection the peer has closed may raise
send_command_raises ==
    /\ closed /\ Sending
    /\ Raise("BrokenPipeError", "send")
    /\ UNCHANGED <<script, itrg, chan, sockVars, recvVars, fetchVars, recVars,
                   waitVars, sendVars, blk, setupVars, faults>>

\* the status that get_trigger_status returns
Status == Strip(data)

\* the history of status replies, at most MaxPolls of them
StatusLogged == IF Len(statusLog) < MaxPolls THEN Append(statusLog, Status) ELSE statusLog

\* a test that takes everything but 'RUN' for a fired trigger
TriggeredUnlessRun == Status # <<"RUN">>

\* the trigger poll's test of the status
Triggered == Status = <<"TD">>

\* the trigger poll's test of the clock
TimedOut == elapsed > TriggerTimeout

\* the header fields as the scripts slice them out of data
HeaderStart == Find(data, "#")
HeaderLenField == Slice(data, HeaderStart + 1, HeaderStart + 2)
ByteCountField == Slice(data, HeaderStart + 2, HeaderStart + 2 + IntVal(HeaderLenField))
PayloadStart == HeaderStart + 2 + IntVal(HeaderLenField)
\* int() raises ValueError on one of the two fields
HeaderRaises == ~IntParses(HeaderLenField) \/ ~IntParses(ByteCountField)

\* the bytes handed to np.frombuffer and on to the voltage conversion
Raw == Slice(waveform_data, 0, byte_count)

\* np.column_stack((times, v3, v4)) raises unless the three are as long
StackRaises(rec) == Len(rec[1]) # npts \/ Len(rec[2]) # npts

\* ------------------------------------------------- rigolDAQ_max_mode.py
\* receive_data: recv until a chunk is empty or shorter than buffer_size,
\* or until the 0.1 s socket timeout, which is swallowed
max_receive_data ==
    /\ script = "max" /\ pc = "receive_data"
    /\ \/ /\ rxbuf # <<>>
          /\ Untimely("early")
          /\ rxbuf' = RecvRest(bufsz)
          /\ IF Len(RecvChunk(bufsz)) < bufsz
             THEN ReturnData(chunks \o RecvChunk(bufsz))
             ELSE /\ chunks' = chunks \o RecvChunk(bufsz)
                  /\ UNCHANGED <<pc, data>>
       \/ /\ AtEOF
          /\ ReturnData(chunks)
          /\ UNCHANGED <<rxbuf, faults>>
       \/ /\ rxbuf = <<>> /\ ~AtEOF
          /\ Untimely("late")
          /\ ReturnData(chunks)
          /\ UNCHANGED rxbuf
    /\ UNCHANGED <<script, itrg, chan, wire, closed, tmo, ret, bufsz, fetchVars,
                   recVars, waitVars, sendVars, err, errAt, blk, setupVars>>

\* flush_socket never returns: the peer closed, so after the buffered bytes
\* every non-blocking recv returns b'' and the loop goes on
flush_socket_spins == closed /\ wire = <<>>

\* :STOP and TRIGger:SWEep SINGle, once before the loop
max_pre ==
    /\ script = "max" /\ pc = "pre"
    /\ send_command(<<"STOP", "SWEEP">>, <<>>)
    /\ pc' = "loop"
    /\ UNCHANGED <<script, itrg, chan, rxbuf, closed, tmo, recvVars, fetchVars,
                   recVars, waitVars, err, errAt, blk, setupVars, faults>>

\* the head of the acquisition loop: flush_socket, :SINGle, start the clock
max_loop ==
    /\ script = "max" /\ pc = "loop" /\ itrg < NTrig
    /\ rxbuf' = <<>>
    /\ IF flush_socket_spins
       THEN /\ pc' = "spin"
            /\ tmo' = "0"
            /\ log' = <<"FLUSH">>
            /\ UNCHANGED <<sent, dirty>>
       ELSE /\ pc' = "poll"
            /\ tmo' = "none"
            /\ log' = <<"FLUSH", "SINGLE">>
            /\ sent' = "SINGLE"
            /\ dirty' = (wire # <<>>)
    /\ elapsed' = 0 /\ polls' = 0 /\ statusLog' = <<>>
    /\ UNCHANGED <<script, itrg, chan, wire, closed, recvVars, fetchVars, recVars,
                   err, errAt, blk, setupVars, faults>>

\* get_trigger_status: send the status query, then receive_data
max_get_trigger_status ==
    /\ script = "max" /\ pc = "poll"
    /\ \E r \in StatusReplies : Answers(r) /\ send_command(<<"STAT?">>, r)
    /\ polls' = Min(polls + 1, MaxPolls + 1)
    /\ CallReceiveData(buffer_size, "poll_check")
    /\ tmo' = "0.1"
    /\ UNCHANGED <<script, itrg, chan, rxbuf, closed, fetchVars, recVars,
                   elapsed, statusLog, err, errAt, blk, setupVars>>

\* the poll loop's body after the status came back
max_poll_check ==
    /\ script = "max" /\ pc = "poll_check"
    /\ statusLog' = StatusLogged
    /\ IF Triggered
       THEN pc' = "fired" /\ UNCHANGED <<err, errAt>>
       ELSE IF TimedOut
            THEN Raise("TimeoutError", "poll")
            ELSE pc' = "poll" /\ UNCHANGED <<err, errAt>>
    /\ UNCHANGED <<script, itrg, chan, sockVars, recvVars, fetchVars, recVars,
                   elapsed, polls, sendVars, blk, setupVars, faults>>

\* :STOP after the trigger fired
max_stop ==
    /\ script = "max" /\ pc = "fired"
    /\ send_command(<<"STOP">>, <<>>)
    /\ pc' = "fetch"
    /\ chan' = 3
    /\ data' = <<>>
    /\ elapsed' = 0 /\ polls' = 0 /\ statusLog' = <<>>
    /\ UNCHANGED <<script, itrg, rxbuf, closed, tmo, ret, bufsz, chunks, fetchVars,
                   recVars, err, errAt, blk, setupVars, faults>>

\* get_waveform_data: select the channel
max_get_waveform_data ==
    /\ script = "max" /\ pc = "fetch"
    /\ send_command(<<"SOURCE">>, <<>>)
    /\ attempt' = 0
    /\ byte_count' = 0 /\ waveform_data' = <<>> /\ received' = <<>>
    /\ pc' = "data_query"
    /\ UNCHANGED <<script, itrg, chan, rxbuf, closed, tmo, recvVars, recVars,
                   waitVars, err, errAt, blk, setupVars, faults>>

\* get_waveform_data: one attempt of WAVeform:DATA?
max_data_query ==
    /\ script = "max" /\ pc = "data_query"
    /\ \E r \in DataReplies : Answers(r) /\ send_command(<<"DATA?">>, r)
    /\ CallReceiveData(buffer_size, "data_check")
    /\ tmo' = "0.1"
    /\ UNCHANGED <<script, itrg, chan, rxbuf, closed, fetchVars, recVars,
                   waitVars, err, errAt, blk, setupVars>>

\* get_waveform_data after receive_data: look for '#', retry without it,
\* parse the header, keep what follows as the start of the payload
max_data_check ==
    /\ script = "max" /\ pc = "data_check"
    /\ IF HeaderStart = -1
       THEN /\ IF attempt + 1 < retries
               THEN pc' = "data_query" /\ UNCHANGED <<err, errAt>>
               ELSE Raise("ValueError", "fetch")
            /\ attempt' = attempt + 1
            /\ UNCHANGED <<byte_count, waveform_data, received>>
       ELSE IF HeaderRaises
            THEN /\ Raise("ValueError", "fetch")
                 /\ UNCHANGED fetchVars
            ELSE /\ byte_count' = IntVal(ByteCountField)
                 /\ waveform_data' = SliceFrom(data, PayloadStart)
                 /\ received' = <<>>
                 /\ pc' = IF Len(SliceFrom(data, PayloadStart)) < IntVal(ByteCountField)
                          THEN "receive_waveform_data" ELSE "convert"
                 /\ UNCHANGED <<attempt, err, errAt>>
    /\ data' = IF HeaderStart # -1 /\ HeaderRaises THEN data ELSE <<>>
    /\ UNCHANGED <<script, itrg, chan, sockVars, ret, bufsz, chunks, recVars,
                   waitVars, sendVars, blk, setupVars, faults>>

\* receive_waveform_data(byte_count - len(waveform_data)): recv until that
\* many bytes are in; an empty chunk is a ConnectionError, the socket
\* timeout left by receive_data is not caught
max_receive_waveform_data ==
    /\ script = "max" /\ pc = "receive_waveform_data"
    /\ LET n == byte_count - Len(waveform_data)
           k == Min(buffer_size, n - Len(received))
       IN  \/ /\ rxbuf # <<>>
              /\ Untimely("early")
              /\ rxbuf' = RecvRest(k)
              /\ IF Len(received \o RecvChunk(k)) < n
                 THEN /\ received' = received \o RecvChunk(k)
                      /\ UNCHANGED <<pc, waveform_data>>
                 ELSE /\ waveform_data' = waveform_data \o received \o RecvChunk(k)
                      /\ received' = <<>>
                      /\ pc' = "convert"
              /\ UNCHANGED <<err, errAt>>
           \/ /\ AtEOF
              /\ Raise("ConnectionError", "fetch")
              /\ UNCHANGED <<rxbuf, waveform_data, received, faults>>
           \/ /\ rxbuf = <<>> /\ ~AtEOF /\ tmo # "none"
              /\ Raise("socket.timeout", "fetch")
              /\ UNCHANGED <<rxbuf, waveform_data, received, faults>>
    /\ UNCHANGED <<script, itrg, chan, wire, closed, tmo, recvVars, attempt,
                   byte_count, recVars, waitVars, sendVars, blk, setupVars>>

\* get_waveform_data returns; channel 3 is followed by flush_socket and
\* channel 4, channel 4 by the two appends and the next iteration
max_convert ==
    /\ script = "max" /\ pc = "convert"
    /\ IF chan = 3
       THEN /\ voltage_ch3' = Raw
            /\ rxbuf' = <<>>
            /\ log' = Append(log, "FLUSH")
            /\ IF flush_socket_spins
               THEN pc' = "spin" /\ tmo' = "0" /\ UNCHANGED chan
               ELSE pc' = "fetch" /\ tmo' = "none" /\ chan' = 4
            /\ UNCHANGED <<voltage_ch4, v_list, itrg>>
       ELSE /\ voltage_ch4' = Raw
            /\ v_list' = Append(v_list, <<voltage_ch3, Raw>>)
            /\ itrg' = itrg + 1
            /\ pc' = "loop"
            /\ UNCHANGED <<voltage_ch3, rxbuf, tmo, log, chan>>
    /\ byte_count' = 0 /\ waveform_data' = <<>>
    /\ UNCHANGED <<script, wire, closed, recvVars, attempt, received, saved,
                   waitVars, sent, dirty, err, errAt, blk, setupVars, faults>>

\* the save loop after the acquisition loop, one record per step, then
\* s.close()
max_save ==
    /\ script = "max" /\ pc = "loop" /\ itrg = NTrig
    /\ IF Len(saved) < Len(v_list)
       THEN IF StackRaises(v_list[Len(saved) + 1])
            THEN Raise("ValueError", "save") /\ UNCHANGED saved
            ELSE /\ saved' = Append(saved, v_list[Len(saved) + 1])
                 /\ UNCHANGED <<pc, err, errAt>>
       ELSE pc' = "done" /\ UNCHANGED <<saved, err, errAt>>
    /\ UNCHANGED <<script, itrg, chan, sockVars, recvVars, fetchVars,
                   voltage_ch3, voltage_ch4, v_list, waitVars, sendVars, blk, setupVars, faults>>

\* ---------------------------------------------- rigolDAQ_normal_mode.py
\* receive_data: one recv under the 1 s socket timeout, which is not caught
normal_receive_data ==
    /\ script = "normal" /\ pc = "receive_data"
    /\ \/ /\ rxbuf # <<>>
          /\ Untimely("early")
          /\ rxbuf' = RecvRest(bufsz)
          /\ ReturnData(RecvChunk(bufsz))
          /\ UNCHANGED <<err, errAt>>
       \/ /\ AtEOF
          /\ ReturnData(<<>>)
          /\ UNCHANGED <<rxbuf, faults, err, errAt>>
       \/ /\ rxbuf = <<>> /\ ~AtEOF /\ tmo # "none"
          /\ Raise("socket.timeout", ret)
          /\ UNCHANGED <<rxbuf, faults, chunks, data>>
    /\ UNCHANGED <<script, itrg, chan, wire, closed, tmo, ret, bufsz, fetchVars,
                   recVars, waitVars, sendVars, blk, setupVars>>

\* :STOP and TRIGger:SWEep SINGle, once before the loop
normal_pre ==
    /\ script = "normal" /\ pc = "pre"
    /\ send_command(<<"STOP", "SWEEP">>, <<>>)
    /\ pc' = "loop"
    /\ UNCHANGED <<script, itrg, chan, rxbuf, closed, tmo, recvVars, fetchVars,
                   recVars, waitVars, err, errAt, blk, setupVars, faults>>

\* the head of the acquisition loop: arm_scope, then wait_for_trigger
\* starts its clock
normal_loop ==
    /\ script = "normal" /\ pc = "loop" /\ itrg < NTrig
    /\ pc' = "poll"
    /\ log' = <<"SINGLE">>
    /\ sent' = "SINGLE"
    /\ dirty' = (wire # <<>> \/ rxbuf # <<>>)
    /\ elapsed' = 0 /\ polls' = 0 /\ statusLog' = <<>>
    /\ UNCHANGED <<script, itrg, chan, sockVars, recvVars, fetchVars, recVars,
                   err, errAt, blk, setupVars, faults>>

\* wait_for_trigger: send the status query, then receive_data
normal_wait_for_trigger ==
    /\ script = "normal" /\ pc = "poll"
    /\ \E r \in StatusReplies : Answers(r) /\ send_command(<<"STAT?">>, r)
    /\ polls' = Min(polls + 1, MaxPolls + 1)
    /\ CallReceiveData(buffer_size, "poll_check")
    /\ UNCHANGED <<script, itrg, chan, rxbuf, closed, tmo, fetchVars, recVars,
                   elapsed, statusLog, err, errAt, blk, setupVars>>

\* wait_for_trigger after the status came back: return on 'TD', raise
\* after the timeout, poll again otherwise
normal_poll_check ==
    /\ script = "normal" /\ pc = "poll_check"
    /\ statusLog' = StatusLogged
    /\ IF Triggered
       THEN pc' = "fetch" /\ chan' = 3 /\ UNCHANGED <<err, errAt>>
       ELSE IF TimedOut
            THEN Raise("TimeoutError", "poll") /\ UNCHANGED chan
            ELSE pc' = "poll" /\ UNCHANGED <<chan, err, errAt>>
    /\ UNCHANGED <<script, itrg, sockVars, recvVars, fetchVars, recVars,
                   elapsed, polls, sendVars, blk, setupVars, faults>>

\* get_waveform: select the channel, query the data, one receive_data
normal_get_waveform ==
    /\ script = "normal" /\ pc = "fetch"
    /\ \E r \in DataReplies : Answers(r) /\ send_command(<<"SOURCE", "DATA?">>, r)
    /\ CallReceiveData(buffer_size, "data_check")
    /\ attempt' = 0
    /\ byte_count' = 0 /\ waveform_data' = <<>> /\ received' = <<>>
    /\ elapsed' = 0 /\ polls' = 0 /\ statusLog' = <<>>
    /\ UNCHANGED <<script, itrg, chan, rxbuf, closed, tmo, recVars,
                   err, errAt, blk, setupVars>>

\* get_waveform after the first receive_data: parse the header where find
\* points, -1 included, keep what follows as the start of the payload
normal_data_check ==
    /\ script = "normal" /\ pc = "data_check"
    /\ IF HeaderRaises
       THEN /\ Raise("ValueError", "fetch")
            /\ UNCHANGED <<data, byte_count, waveform_data, ret, bufsz, chunks>>
       ELSE /\ byte_count' = IntVal(ByteCountField)
            /\ waveform_data' = SliceFrom(data, PayloadStart)
            /\ IF Len(SliceFrom(data, PayloadStart)) < IntVal(ByteCountField)
               THEN CallReceiveData(IntVal(ByteCountField)
                                      - Len(SliceFrom(data, PayloadStart)), "while")
               ELSE /\ pc' = "convert"
                    /\ data' = <<>>
                    /\ UNCHANGED <<ret, bufsz, chunks>>
            /\ UNCHANGED <<err, errAt>>
    /\ UNCHANGED <<script, itrg, chan, sockVars, attempt, received, recVars,
                   waitVars, sendVars, blk, setupVars, faults>>

\* get_waveform's while loop: add what receive_data returned, receive the
\* rest while the payload is short
normal_while ==
    /\ script = "normal" /\ pc = "while"
    /\ waveform_data' = waveform_data \o data
    /\ IF Len(waveform_data \o data) < byte_count
       THEN CallReceiveData(byte_count - Len(waveform_data \o data), "while")
       ELSE /\ pc' = "convert"
            /\ data' = <<>>
            /\ UNCHANGED <<ret, bufsz, chunks>>
    /\ UNCHANGED <<script, itrg, chan, sockVars, attempt, byte_count, received,
                   recVars, waitVars, sendVars, err, errAt, blk, setupVars, faults>>

\* get_waveform returns; channel 3 is followed by channel 4, channel 4 by
\* the two appends and the next iteration
normal_convert ==
    /\ script = "normal" /\ pc = "convert"
    /\ IF chan = 3
       THEN /\ voltage_ch3' = Raw
            /\ pc' = "fetch"
            /\ chan' = 4
            /\ UNCHANGED <<voltage_ch4, v_list, itrg>>
       ELSE /\ voltage_ch4' = Raw
            /\ v_list' = Append(v_list, <<voltage_ch3, Raw>>)
            /\ itrg' = itrg + 1
            /\ pc' = "loop"
            /\ UNCHANGED <<voltage_ch3, chan>>
    /\ byte_count' = 0 /\ waveform_data' = <<>>
    /\ UNCHANGED <<script, sockVars, recvVars, attempt, received, saved,
                   waitVars, sendVars, err, errAt, blk, setupVars, faults>>

\* the save loop after the acquisition loop, one record per step, then
\* s.close()
normal_save ==
    /\ script = "normal" /\ pc = "loop" /\ itrg = NTrig
    /\ IF Len(saved) < Len(v_list)
       THEN IF StackRaises(v_list[Len(saved) + 1])
            THEN Raise("ValueError", "save") /\ UNCHANGED saved
            ELSE /\ saved' = Append(saved, v_list[Len(saved) + 1])
                 /\ UNCHANGED <<pc, err, errAt>>
       ELSE pc' = "done" /\ UNCHANGED <<saved, err, errAt>>
    /\ UNCHANGED <<script, itrg, chan, sockVars, recvVars, fetchVars,
                   voltage_ch3, voltage_ch4, v_list, waitVars, sendVars, blk, setupVars, faults>>

\* ----------------------------------------------------------- rigolDAQ.py
\* receive_data: one recv on a socket without timeout
basic_receive_data ==
    /\ script = "basic" /\ pc = "receive_data"
    /\ \/ /\ rxbuf # <<>>
          /\ Untimely("early")
          /\ rxbuf' = RecvRest(bufsz)
          /\ ReturnData(RecvChunk(bufsz))
       \/ /\ AtEOF
          /\ ReturnData(<<>>)
          /\ UNCHANGED <<rxbuf, faults>>
    /\ UNCHANGED <<script, itrg, chan, wire, closed, tmo, ret, bufsz, fetchVars,
                   recVars, waitVars, sendVars, err, errAt, blk, setupVars>>

\* arm_scope before the loop
basic_pre ==
    /\ script = "basic" /\ pc = "pre"
    /\ send_command(<<"SWEEP">>, <<>>)
    /\ pc' = "loop"
    /\ UNCHANGED <<script, itrg, chan, rxbuf, closed, tmo, recvVars, fetchVars,
                   recVars, waitVars, err, errAt, blk, setupVars, faults>>

\* the head of the acquisition loop
basic_loop ==
    /\ script = "basic" /\ pc = "loop" /\ itrg < NTrig
    /\ pc' = "poll"
    /\ log' = <<>>
    /\ polls' = 0 /\ statusLog' = <<>>
    /\ UNCHANGED <<script, itrg, chan, sockVars, recvVars, fetchVars, recVars,
                   elapsed, sent, dirty, err, errAt, blk, setupVars, faults>>

\* get_trigger_status: send the status query, then receive_data
basic_get_trigger_status ==
    /\ script = "basic" /\ pc = "poll"
    /\ \E r \in StatusReplies : Answers(r) /\ send_command(<<"STAT?">>, r)
    /\ polls' = Min(polls + 1, MaxPolls + 1)
    /\ CallReceiveData(buffer_size, "poll_check")
    /\ UNCHANGED <<script, itrg, chan, rxbuf, closed, tmo, fetchVars, recVars,
                   elapsed, statusLog, err, errAt, blk, setupVars>>

\* the poll loop's body after the status came back: break on 'TD', sleep
\* and poll again otherwise
basic_poll_check ==
    /\ script = "basic" /\ pc = "poll_check"
    /\ statusLog' = StatusLogged
    /\ IF Triggered
       THEN pc' = "fetch" /\ chan' = 3
       ELSE pc' = "poll" /\ UNCHANGED chan
    /\ UNCHANGED <<script, itrg, sockVars, recvVars, fetchVars, recVars,
                   elapsed, polls, sendVars, err, errAt, blk, setupVars, faults>>

\* get_waveform_data: set mode and format, select the channel
basic_get_waveform_data ==
    /\ script = "basic" /\ pc = "fetch"
    /\ send_command(<<"MODE", "FORMAT", "SOURCE">>, <<>>)
    /\ attempt' = 0
    /\ byte_count' = 0 /\ waveform_data' = <<>> /\ received' = <<>>
    /\ data' = <<>>
    /\ polls' = 0 /\ statusLog' = <<>>
    /\ pc' = "yquery"
    /\ UNCHANGED <<script, itrg, chan, rxbuf, closed, tmo, ret, bufsz, chunks,
                   recVars, elapsed, err, errAt, blk, setupVars, faults>>

\* the three scaling queries of get_waveform_data, in order
YQueries == <<"YINC?", "YOR?", "YREF?">>

\* query_float: send the command, then receive_data
basic_query_float ==
    /\ script = "basic" /\ pc = "yquery"
    /\ \E r \in NumericReplies(YQueries[attempt + 1]) :
           Answers(r) /\ send_command(<<YQueries[attempt + 1]>>, r)
    /\ CallReceiveData(buffer_size, "ycheck")
    /\ UNCHANGED <<script, itrg, chan, rxbuf, closed, tmo, fetchVars, recVars,
                   waitVars, err, errAt, blk, setupVars>>

\* query_float after the reply came back: float() of it
basic_query_check ==
    /\ script = "basic" /\ pc = "ycheck"
    /\ IF FloatParses(data)
       THEN /\ attempt' = attempt + 1
            /\ pc' = IF attempt + 1 < Len(YQueries) THEN "yquery" ELSE "data_query"
            /\ UNCHANGED <<err, errAt>>
       ELSE /\ Raise("ValueError", "query")
            /\ UNCHANGED attempt
    /\ data' = <<>>
    /\ UNCHANGED <<script, itrg, chan, sockVars, ret, bufsz, chunks, byte_count,
                   waveform_data, received, recVars, waitVars, sendVars, blk, setupVars, faults>>

\* get_waveform_data: WAVeform:DATA?, then receive_data
basic_data_query ==
    /\ script = "basic" /\ pc = "data_query"
    /\ \E r \in DataReplies : Answers(r) /\ send_command(<<"DATA?">>, r)
    /\ CallReceiveData(buffer_size, "data_check")
    /\ UNCHANGED <<script, itrg, chan, rxbuf, closed, tmo, fetchVars, recVars,
                   waitVars, err, errAt, blk, setupVars>>

\* get_waveform_data after receive_data: raise without '#', parse the
\* header, cut the payload out of what this one receive returned
basic_data_check ==
    /\ script = "basic" /\ pc = "data_check"
    /\ IF HeaderStart = -1 \/ HeaderRaises
       THEN /\ Raise("ValueError", "fetch")
            /\ UNCHANGED <<byte_count, waveform_data>>
       ELSE /\ byte_count' = IntVal(ByteCountField)
            /\ waveform_data' = Slice(data, PayloadStart,
                                      PayloadStart + IntVal(ByteCountField))
            /\ pc' = "convert"
            /\ UNCHANGED <<err, errAt>>
    /\ data' = <<>>
    /\ UNCHANGED <<script, itrg, chan, sockVars, ret, bufsz, chunks, attempt,
                   received, recVars, waitVars, sendVars, blk, setupVars, faults>>

\* get_waveform_data returns; channel 3 is followed by channel 4, channel 4
\* by arm_scope and the attempt to save the record, whose failure is only
\* printed
basic_convert ==
    /\ script = "basic" /\ pc = "convert"
    /\ IF chan = 3
       THEN /\ voltage_ch3' = waveform_data
            /\ pc' = "fetch"
            /\ chan' = 4
            /\ UNCHANGED <<voltage_ch4, v_list, saved, itrg, wire, sendVars>>
       ELSE /\ voltage_ch4' = waveform_data
            /\ send_command(<<"SWEEP">>, <<>>)
            /\ v_list' = Append(v_list, <<voltage_ch3, waveform_data>>)
            /\ saved' = IF StackRaises(<<voltage_ch3, waveform_data>>)
                        THEN saved
                        ELSE Append(saved, <<voltage_ch3, waveform_data>>)
            /\ itrg' = itrg + 1
            /\ pc' = "loop"
            /\ UNCHANGED <<voltage_ch3, chan>>
    /\ byte_count' = 0 /\ waveform_data' = <<>>
    /\ UNCHANGED <<script, rxbuf, closed, tmo, recvVars, attempt, received,
                   waitVars, err, errAt, blk, setupVars, faults>>

\* s.close() after the last iteration
basic_close ==
    /\ script = "basic" /\ pc = "loop" /\ itrg = NTrig
    /\ pc' = "done"
    /\ UNCHANGED <<script, itrg, chan, sockVars, recvVars, fetchVars, recVars,
                   waitVars, sendVars, err, errAt, blk, setupVars, faults>>

\* ---------------------------------------------------------------- setup
\* what each script does between *IDN? and its acquisition loop: plain
\* sends ("SOURCE") and numeric queries, in program order
SetupSteps(sc) ==
    CASE sc = "max" -> <<"XINC?", "XOR?", "POINTS?", "SOURCE", "YINC?", "YOR?", "YREF?",
                         "SOURCE", "YINC?", "YOR?", "YREF?">>
      [] sc = "normal" -> <<"POINTS?", "XINC?", "XOR?", "SOURCE", "YINC?", "YOR?", "YREF?",
                            "SOURCE", "YINC?", "YOR?", "YREF?">>
      [] sc = "basic" -> <<"POINTS?", "XINC?", "XOR?">>

\* the step the script is at
Step == SetupSteps(script)[qi]

\* on to the next step, or into the acquisition part after the last one
Advance ==
    /\ qi' = qi + 1
    /\ attempt' = 0
    /\ pc' = IF qi < Len(SetupSteps(script)) THEN "query" ELSE "pre"

\* a query returns the number it parsed out of data
Returns == values' = Append(values, IntVal(data))

\* *IDN?, then receive_data
max_idn ==
    /\ script = "max" /\ pc = "idn"
    /\ \E r \in IdnReplies : Answers(r) /\ send_command(<<"IDN?">>, r)
    /\ CallReceiveData(buffer_size, "idn_done")
    /\ tmo' = "0.1"
    /\ UNCHANGED <<script, itrg, chan, rxbuf, closed, fetchVars, recVars,
                   waitVars, err, errAt, blk, setupVars>>

\* the identity is printed; WAVeform:MODE, FORMat and SOURce are sent
max_configure ==
    /\ script = "max" /\ pc = "idn_done"
    /\ send_command(<<"MODE", "FORMAT", "SOURCE">>, <<>>)
    /\ Advance
    /\ data' = <<>>
    /\ UNCHANGED <<script, itrg, chan, rxbuf, closed, tmo, ret, bufsz, chunks,
                   byte_count, waveform_data, received, recVars, waitVars,
                   err, errAt, blk, values, faults>>

\* prepare_channel_scaling: WAVeform:SOURce
max_prepare_channel_scaling ==
    /\ script = "max" /\ pc = "query" /\ Step = "SOURCE"
    /\ send_command(<<"SOURCE">>, <<>>)
    /\ Advance
    /\ UNCHANGED <<script, itrg, chan, rxbuf, closed, tmo, recvVars, byte_count,
                   waveform_data, received, recVars, waitVars, err, errAt, blk,
                   values, faults>>

\* query_float, one attempt: send the command, then receive_data
max_query_float ==
    /\ script = "max" /\ pc = "query" /\ Step \notin {"SOURCE", "POINTS?"}
    /\ \E r \in NumericReplies(Step) : Answers(r) /\ send_command(<<Step>>, r)
    /\ CallReceiveData(buffer_size, "query_check")
    /\ UNCHANGED <<script, itrg, chan, rxbuf, closed, tmo, fetchVars, recVars,
                   waitVars, err, errAt, blk, setupVars>>

\* query_float after receive_data: a non-empty reply that float() accepts
\* is returned; anything else goes to the next attempt, and RuntimeError is
\* raised after the last one
max_query_check ==
    /\ script = "max" /\ pc = "query_check"
    /\ IF Strip(data) # <<>> /\ FloatParses(Strip(data))
       THEN /\ Returns
            /\ Advance
            /\ UNCHANGED <<err, errAt>>
       ELSE /\ IF attempt + 1 < retries
               THEN /\ attempt' = attempt + 1
                    /\ pc' = "query"
                    /\ UNCHANGED <<err, errAt>>
               ELSE /\ Raise("RuntimeError", "query")
                    /\ UNCHANGED attempt
            /\ UNCHANGED setupVars
    /\ data' = <<>>
    /\ UNCHANGED <<script, itrg, chan, sockVars, ret, bufsz, chunks, byte_count,
                   waveform_data, received, recVars, waitVars, sendVars, blk, faults>>

\* WAVeform:POINTs?, sent in line, then receive_data
max_points ==
    /\ script = "max" /\ pc = "query" /\ Step = "POINTS?"
    /\ \E r \in NumericReplies(Step) : Answers(r) /\ send_command(<<Step>>, r)
    /\ CallReceiveData(buffer_size, "points_check")
    /\ UNCHANGED <<script, itrg, chan, rxbuf, closed, tmo, fetchVars, recVars,
                   waitVars, err, errAt, blk, setupVars>>

\* npts = int(...) of what receive_data returned
max_points_check ==
    /\ script = "max" /\ pc = "points_check"
    /\ IF IntParses(data)
       THEN /\ Returns
            /\ Advance
            /\ UNCHANGED <<err, errAt>>
       ELSE /\ Raise("ValueError", "query")
            /\ UNCHANGED <<attempt, setupVars>>
    /\ data' = <<>>
    /\ UNCHANGED <<script, itrg, chan, sockVars, ret, bufsz, chunks, byte_count,
                   waveform_data, received, recVars, waitVars, sendVars, blk, faults>>

\* *IDN?, then receive_data
normal_idn ==
    /\ script = "normal" /\ pc = "idn"
    /\ \E r \in IdnReplies : Answers(r) /\ send_command(<<"IDN?">>, r)
    /\ CallReceiveData(buffer_size, "idn_done")
    /\ UNCHANGED <<script, itrg, chan, rxbuf, closed, tmo, fetchVars, recVars,
                   waitVars, err, errAt, blk, setupVars>>

\* the identity is printed; WAVeform:MODE and FORMat are sent, and
\* get_timebase sends WAVeform:SOURce
normal_configure ==
    /\ script = "normal" /\ pc = "idn_done"
    /\ send_command(<<"MODE", "FORMAT", "SOURCE">>, <<>>)
    /\ Advance
    /\ data' = <<>>
    /\ UNCHANGED <<script, itrg, chan, rxbuf, closed, tmo, ret, bufsz, chunks,
                   byte_count, waveform_data, received, recVars, waitVars,
                   err, errAt, blk, values, faults>>

\* prepare_channel: WAVeform:SOURce
normal_prepare_channel ==
    /\ script = "normal" /\ pc = "query" /\ Step = "SOURCE"
    /\ send_command(<<"SOURCE">>, <<>>)
    /\ Advance
    /\ UNCHANGED <<script, itrg, chan, rxbuf, closed, tmo, recvVars, byte_count,
                   waveform_data, received, recVars, waitVars, err, errAt, blk,
                   values, faults>>

\* query: send the command, then receive_data
normal_query ==
    /\ script = "normal" /\ pc = "query" /\ Step # "SOURCE"
    /\ \E r \in NumericReplies(Step) : Answers(r) /\ send_command(<<Step>>, r)
    /\ CallReceiveData(buffer_size, "query_check")
    /\ UNCHANGED <<script, itrg, chan, rxbuf, closed, tmo, fetchVars, recVars,
                   waitVars, err, errAt, blk, setupVars>>

\* int() or float() of the stripped reply, in get_timebase, query_float
normal_query_float ==
    /\ script = "normal" /\ pc = "query_check"
    /\ IF FloatParses(Strip(data))
       THEN /\ Returns
            /\ Advance
            /\ UNCHANGED <<err, errAt>>
       ELSE /\ Raise("ValueError", "query")
            /\ UNCHANGED <<attempt, setupVars>>
    /\ data' = <<>>
    /\ UNCHANGED <<script, itrg, chan, sockVars, ret, bufsz, chunks, byte_count,
                   waveform_data, received, recVars, waitVars, sendVars, blk, faults>>

\* *IDN?, then receive_data
basic_idn ==
    /\ script = "basic" /\ pc = "idn"
    /\ \E r \in IdnReplies : Answers(r) /\ send_command(<<"IDN?">>, r)
    /\ CallReceiveData(buffer_size, "idn_done")
    /\ UNCHANGED <<script, itrg, chan, rxbuf, closed, tmo, fetchVars, recVars,
                   waitVars, err, errAt, blk, setupVars>>

\* the identity is printed and get_timebase starts
basic_identified ==
    /\ script = "basic" /\ pc = "idn_done"
    /\ Advance
    /\ data' = <<>>
    /\ UNCHANGED <<script, itrg, chan, sockVars, ret, bufsz, chunks, byte_count,
                   waveform_data, received, recVars, waitVars, sendVars,
                   err, errAt, blk, values, faults>>

\* get_timebase, one query_float: send the command, then receive_data
basic_get_timebase ==
    /\ script = "basic" /\ pc = "query"
    /\ \E r \in NumericReplies(Step) : Answers(r) /\ send_command(<<Step>>, r)
    /\ CallReceiveData(buffer_size, "query_check")
    /\ UNCHANGED <<script, itrg, chan, rxbuf, closed, tmo, fetchVars, recVars,
                   waitVars, err, errAt, blk, setupVars>>

\* get_timebase after receive_data: float() of the reply
basic_timebase_check ==
    /\ script = "basic" /\ pc = "query_check"
    /\ IF FloatParses(data)
       THEN /\ Returns
            /\ Advance
            /\ UNCHANGED <<err, errAt>>
       ELSE /\ Raise("ValueError", "query")
            /\ UNCHANGED <<attempt, setupVars>>
    /\ data' = <<>>
    /\ UNCHANGED <<script, itrg, chan, sockVars, ret, bufsz, chunks, byte_count,
                   waveform_data, received, recVars, waitVars, sendVars, blk, faults>>

\* ------------------------------------------------------- specifications
InitCommon ==
    /\ ret = "none"
    /\ itrg = 0
    /\ chan = 3
    /\ wire = <<>>
    /\ rxbuf = <<>>
    /\ closed = FALSE
    /\ bufsz = buffer_size
    /\ chunks = <<>>
    /\ data = <<>>
    /\ attempt = 0
    /\ byte_count = 0
    /\ waveform_data = <<>>
    /\ received = <<>>
    /\ voltage_ch3 = <<>>
    /\ voltage_ch4 = <<>>
    /\ v_list = <<>>
    /\ saved = <<>>
    /\ elapsed = 0
    /\ err = "none"
    /\ errAt = "none"
    /\ blk \in ValidBlocks
    /\ faults = <<>>
    /\ qi = 0
    /\ values = <<>>
    /\ log = <<>>
    /\ polls = 0
    /\ statusLog = <<>>
    /\ sent = "none"
    /\ dirty = FALSE

\* the socket timeout each script has set when it enters its loop
InitialTimeout(sc) ==
    CASE sc = "basic" -> "none"
      [] sc = "normal" -> "1"
      [] sc = "max" -> "0.1"

\* the socket timeout each script has set when it connects
ConnectTimeout(sc) ==
    CASE sc = "basic" -> "none"
      [] sc = "normal" -> "1"
      [] sc = "max" -> "20"

Init ==
    /\ script \in Scripts
    /\ pc = "pre"
    /\ tmo = InitialTimeout(script)
    /\ InitCommon

Env == Deliver \/ PeerClose \/ Tick \/ send_command_raises

Max ==
    \/ max_receive_data \/ max_pre \/ max_loop \/ max_get_trigger_status
    \/ max_poll_check \/ max_stop \/ max_get_waveform_data \/ max_data_query
    \/ max_data_check \/ max_receive_waveform_data \/ max_convert \/ max_save

Normal ==
    \/ normal_receive_data \/ normal_pre \/ normal_loop \/ normal_wait_for_trigger
    \/ normal_poll_check \/ normal_get_waveform \/ normal_data_check
    \/ normal_while \/ normal_convert \/ normal_save

Basic ==
    \/ basic_receive_data \/ basic_pre \/ basic_loop \/ basic_get_trigger_status
    \/ basic_poll_check \/ basic_get_waveform_data \/ basic_query_float
    \/ basic_query_check \/ basic_data_query \/ basic_data_check
    \/ basic_convert \/ basic_close

Next == Env \/ Max \/ Normal \/ Basic

Spec == Init /\ [][Next]_vars

\* the scripts from the connection to the head of the acquisition part
InitSetup ==
    /\ script \in Scripts
    /\ pc = "idn"
    /\ tmo = ConnectTimeout(script)
    /\ InitCommon

EnvSetup == Deliver \/ PeerClose \/ send_command_raises

MaxSetup ==
    \/ max_receive_data \/ max_idn \/ max_configure \/ max_prepare_channel_scaling
    \/ max_query_float \/ max_query_check \/ max_points \/ max_points_check

NormalSetup ==
    \/ normal_receive_data \/ normal_idn \/ normal_configure
    \/ normal_prepare_channel \/ normal_query \/ normal_query_float

BasicSetup ==
    \/ basic_receive_data \/ basic_idn \/ basic_identified
    \/ basic_get_timebase \/ basic_timebase_check

NextSetup == EnvSetup \/ MaxSetup \/ NormalSetup \/ BasicSetup

SpecSetup == InitSetup /\ [][NextSetup]_vars

\* the scheduling of the scripts: the script runs while it can, bytes in
\* flight arrive, time passes, and a script that keeps sending on a closed
\* connection gets the error sooner or later
Script == Max \/ Normal \/ Basic

SpecLive ==
    /\ Init /\ [][Next]_vars
    /\ WF_vars(Script) /\ WF_vars(Deliver) /\ WF_vars(Tick)
    /\ SF_vars(send_command_raises)

\* the fetch of one record in rigolDAQ_max_mode.py and
\* rigolDAQ_normal_mode.py, from the state in which the first trigger wait
\* has just ended as fired on its first poll
InitFetch ==
    /\ script \in {"max", "normal"}
    /\ pc = "fetch"
    /\ itrg = 0 /\ chan = 3
    /\ wire = <<>> /\ rxbuf = <<>> /\ closed = FALSE
    /\ bufsz = buffer_size /\ chunks = <<>>
    /\ attempt = 0 /\ byte_count = 0 /\ waveform_data = <<>> /\ received = <<>>
    /\ voltage_ch3 = <<>> /\ voltage_ch4 = <<>> /\ v_list = <<>> /\ saved = <<>>
    /\ elapsed = 0 /\ err = "none" /\ errAt = "none"
    /\ blk \in ValidBlocks
    /\ faults = <<>> /\ qi = 0 /\ values = <<>>
    /\ dirty = FALSE
    /\ ret = "poll_check"
    /\ tmo = InitialTimeout(script)
    /\ IF script = "max"
       THEN /\ data = <<>> /\ polls = 0 /\ statusLog = <<>>
            /\ sent = "STOP"
            /\ log = <<"FLUSH", "SINGLE", "STAT?", "STOP">>
       ELSE /\ data = <<"TD", "\n">> /\ polls = 1 /\ statusLog = << <<"TD">> >>
            /\ sent = "STAT?"
            /\ log = <<"SINGLE", "STAT?">>

EnvFetch == Deliver \/ PeerClose \/ send_command_raises

MaxFetch ==
    \/ max_receive_data \/ max_get_waveform_data \/ max_data_query
    \/ max_data_check \/ max_receive_waveform_data \/ max_convert

NormalFetch ==
    \/ normal_receive_data \/ normal_get_waveform \/ normal_data_check
    \/ normal_while \/ normal_convert

NextFetch == EnvFetch \/ MaxFetch \/ NormalFetch

\* the statements that complete a payload run while they can, and bytes
\* in flight arrive
SpecFetch ==
    /\ InitFetch /\ [][NextFetch]_vars
    /\ WF_vars(Deliver)
    /\ WF_vars(max_receive_waveform_data)
    /\ WF_vars(normal_receive_data) /\ WF_vars(normal_while)

\* ---------------------------------------------------------------- claims
\* the only irregularity so far is fragmentation: the instrument answered
\* every query, in time, and kept the connection
OnlyFragmented == \A k \in 1..Len(faults) : faults[k] = "early"

\* the trigger wait has just ended with the trigger fired
JustFired ==
    \/ script = "max" /\ pc = "fired"
    \/ script \in {"normal", "basic"} /\ pc = "fetch" /\ chan = 3 /\ polls > 0

\* C1: in rigolDAQ_max_mode.py and rigolDAQ_normal_mode.py, for every valid
\* block and every fragmentation of the response, the fetch ends with
\* exactly the block's payload handed to the voltage conversion: it does
\* not fail on the header and hands over no other bytes.
C1_FetchReturnsPayload ==
    (script \in {"max", "normal"} /\ OnlyFragmented) =>
        /\ pc = "convert" => Raw = BlockPayload(blk)
        /\ ~(pc = "crashed" /\ errAt = "fetch" /\ err = "ValueError")

\* C2: in every script, a payload handed to the voltage conversion is as
\* long as the byte count the block header declares.
C2_HandedLengthIsDeclared ==
    pc = "convert" => Len(Raw) = DeclaredLength(blk)

\* C3: in every script and every trigger iteration, a STOP command is sent
\* after the status poll and before the first WAVeform:DATA? query.
C3_StopBeforeFetch ==
    \A i \in 1..Len(log) :
        log[i] = "DATA?" =>
            \E j \in 1..(i - 1) :
                /\ log[j] = "STOP"
                /\ \E k \in 1..(j - 1) : log[k] = "STAT?"

\* C4: the trigger wait ends as fired exactly at the first poll whose reply
\* is 'TD': every poll sends one status query and reads one reply, the
\* replies before the last are not 'TD' and keep the loop polling, and the
\* reply on which the wait ends as fired is 'TD'.
C4_FiredAtFirstTD ==
    /\ (pc = "poll" /\ polls <= MaxPolls) =>
           /\ Len(statusLog) = polls
           /\ \A i \in 1..polls : statusLog[i] # <<"TD">>
    /\ (pc \in {"receive_data", "poll_check"} /\ ret = "poll_check"
            /\ polls <= MaxPolls) =>
           /\ Len(statusLog) = polls - 1
           /\ \A i \in 1..(polls - 1) : statusLog[i] # <<"TD">>
    /\ (JustFired /\ polls <= MaxPolls) =>
           /\ Len(statusLog) = polls
           /\ statusLog[polls] = <<"TD">>
           /\ \A i \in 1..(polls - 1) : statusLog[i] # <<"TD">>

\* a wait that fired on its last recorded poll after polls without 'TD'
C4_Witness ==
    /\ JustFired
    /\ polls = MaxPolls
    /\ statusLog[1] = <<"RUN">>
    /\ statusLog[polls] = <<"TD">>

\* C5: in every script the trigger wait ends: the script does not stay in
\* the wait forever.
C5_WaitEnds == Waiting ~> ~Waiting

\* C6: when a trigger wait times out while the instrument is otherwise
\* regular, the run ends with the records of the other NTrig - 1 triggers
\* produced.
C6_TimeoutCostsOneRecord ==
    (pc \in Terminal /\ err = "TimeoutError" /\ faults = <<>>) =>
        Len(saved) >= NTrig - 1

\* C7: in rigolDAQ_max_mode.py and rigolDAQ.py, a run in which a waveform
\* fetch failed on a live connection still executes all NTrig iterations,
\* and the records of the iterations before the failure are delivered.
C7_FetchFailureIsPerRecord ==
    (script \in {"max", "basic"} /\ pc \in Terminal /\ errAt = "fetch" /\ ~closed) =>
        /\ itrg = NTrig
        /\ Len(saved) >= NTrig - 1

\* the script has just sent a query again: a further attempt of query_float
\* or of WAVeform:DATA?, on a live connection
Resent ==
    /\ pc = "receive_data"
    /\ ret \in {"query_check", "data_check"}
    /\ attempt > 0
    /\ ~closed

\* C8: in rigolDAQ_max_mode.py a numeric query of the setup fails only by
\* raising RuntimeError after retries attempts: a reply that is empty or
\* no numeral never ends the script at once.
C8_QueriesRetry ==
    (script = "max" /\ pc = "crashed" /\ errAt = "query") =>
        /\ err = "RuntimeError"
        /\ attempt + 1 = retries

\* C9: in rigolDAQ_max_mode.py no query is sent again while bytes of an
\* earlier reply are still unread or in flight.
C9_OneOutstanding ==
    (script = "max" /\ Resent) => ~dirty

\* C10: in rigolDAQ_max_mode.py a query is sent again only after a flush
\* of the socket: the command before the repeated one in the history is
\* a flush.
C10_FlushBeforeResend ==
    (script = "max" /\ Resent) =>
        /\ Len(log) >= 2
        /\ log[Len(log) - 1] = "FLUSH"

\* the byte after '#' is not one of the digits 1-9
BadLengthDigit ==
    /\ HeaderStart # -1
    /\ HeaderLenField \notin {<<DigitChar(n)>> : n \in 1..9}

\* C11: in rigolDAQ_max_mode.py and rigolDAQ_normal_mode.py, when the byte
\* after '#' is not a digit 1-9 the header parse ends the fetch with
\* ValueError at once: no byte is read from the socket and no byte count
\* or payload is set.
C11_BadDigitFailsAtOnce ==
    [][(script \in {"max", "normal"} /\ pc = "data_check" /\ pc' # pc
            /\ BadLengthDigit) =>
           /\ pc' = "crashed" /\ err' = "ValueError" /\ errAt' = "fetch"
           /\ UNCHANGED <<rxbuf, byte_count, waveform_data>>]_vars

\* a fetch that failed on a header whose length-of-length digit is '0'
C11_Witness ==
    /\ script \in {"max", "normal"}
    /\ pc = "crashed" /\ errAt = "fetch" /\ err = "ValueError"
    /\ HeaderStart # -1
    /\ HeaderLenField = <<"0">>

\* C12: in every script, a reply to WAVeform:DATA? in which '#' is not
\* found is never parsed: the fetch asks again, at most retries times in
\* all, or fails, and sets no byte count from that reply.
C12_NoMarkerNoParse ==
    [][(pc = "data_check" /\ pc' # pc /\ HeaderStart = -1) =>
           /\ pc' \in {"data_query", "crashed"}
           /\ byte_count' = byte_count
           /\ attempt' <= retries]_vars

\* the script is completing a payload that is still short
Completing ==
    \/ pc = "receive_waveform_data"
    \/ pc = "while"
    \/ pc = "receive_data" /\ ret = "while"

\* C13: in rigolDAQ_max_mode.py and rigolDAQ_normal_mode.py the completion
\* of a short payload always ends: with the bytes, or with an error.
C13_CompletionEnds == Completing ~> ~Completing

\* C14: in rigolDAQ_max_mode.py and rigolDAQ_normal_mode.py, when an
\* iteration of a regular run has armed the instrument the records of all
\* iterations before it have been written.
C14_SavedBeforeNextArm ==
    (script \in {"max", "normal"} /\ pc = "poll" /\ faults = <<>>) =>
        Len(saved) = itrg

\* C15: in rigolDAQ_max_mode.py and rigolDAQ_normal_mode.py, a fetch that
\* failed on the header of a live connection leaves no byte of the reply
\* in flight or in the receive buffer.
C15_ErrorDrainsReply ==
    (script \in {"max", "normal"} /\ pc = "crashed" /\ errAt = "fetch"
        /\ err = "ValueError" /\ ~closed) =>
        wire = <<>> /\ rxbuf = <<>>

\* C16: in every script the arm command of an iteration follows a flush of
\* the socket: the entry before it in the iteration's history is a flush.
C16_FlushBeforeArm ==
    \A i \in 1..Len(log) :
        (log[i] = "SINGLE" \/ (script = "basic" /\ log[i] = "SWEEP")) =>
            i > 1 /\ log[i - 1] = "FLUSH"

\* C17: flush_socket always returns: the script is never left inside its
\* receive loop.
C17_FlushReturns == pc # "spin"

\* the script is at a recv of a query, a status poll or a payload read
AtRecv ==
    \/ pc = "receive_data"
    \/ pc = "receive_waveform_data"

\* C18: in every script, at each recv of a query, a status poll or a
\* payload read the socket's timeout is a finite value.
C18_RecvHasTimeout == AtRecv => tmo # "none"

\* C19: in rigolDAQ_max_mode.py and rigolDAQ_normal_mode.py, receive_data
\* does not return on a read that brought bytes while more bytes of the
\* reply are still in flight.
C19_ReturnsWholeReply ==
    [][(script \in {"max", "normal"} /\ pc = "receive_data" /\ pc' = ret
            /\ rxbuf # <<>>) => wire = <<>>]_vars

\* C20: in rigolDAQ_max_mode.py and rigolDAQ_normal_mode.py, when a fetch
\* of a merely fragmented reply has returned the block's payload, no byte
\* of the reply is in flight or in the receive buffer.
C20_NothingLeftAfterFetch ==
    (script \in {"max", "normal"} /\ pc = "convert" /\ OnlyFragmented
        /\ Raw = BlockPayload(blk)) =>
        wire = <<>> /\ rxbuf = <<>>

====
